---- MODULE Spec2Model ----
(***************************************************************************)
(* SISRS helper scripts.                                                   *)
(*                                                                         *)
(*   libexec/gfr/genealign_from_allgenes.py  (the Locus Regrouper)         *)
(*   tests/test_sisrs.py                     (the Pipeline Verifier)       *)
(*                                                                         *)
(* Strings of the program are sequences of one-character strings, so that  *)
(* list(seq_record.id), list.pop, ''.join, os.path.splitext and            *)
(* os.path.basename are computed character by character.                   *)
(***************************************************************************)
EXTENDS Integers, Sequences, FiniteSets, TLC

VARIABLES
    argv1,      \* sys.argv[1] after int(): numalleles
    loci,       \* <argv[2]>/loci before the run: file name -> content
    pc,         \* position of the script: start, reading, writing, done, error
    fafiles,    \* the part of the glob result the first loop has yet to visit
    processed,  \* the paths the first loop has visited, in order
    seqdict,    \* gene -> list of records
    pending,    \* keys of seqdict the second loop has yet to visit
    written,    \* files written by this run: path -> list of records
    outdir,     \* what is at out_base_dir: "absent", "file", or a directory
    d1, d2,     \* the two directories handed to dirs_match
    vpc,        \* position of the test module: import, ready, error
    result,     \* what the last dirs_match call returned, "none" before
    fresult,    \* what the last files_match call returned, "none" before
    cache,      \* filecmp._cache of the test process
    outdir0,    \* history: what was at out_base_dir before the module ran
    identical0, \* history: d1 and d2 were identical to begin with
    nchanged    \* history: bytes changed in d1 and d2 since

vars == <<argv1, loci, pc, fafiles, processed, seqdict, pending, written,
          outdir, d1, d2, vpc, result, fresult, cache, outdir0, identical0,
          nchanged>>

regrouperVars == <<argv1, loci, pc, fafiles, processed, seqdict, pending,
                   written>>
verifierVars == <<outdir, d1, d2, vpc, result, fresult, cache, outdir0,
                  identical0, nchanged>>

----------------------------------------------------------------------------
(* Bounds of the model *)

MaxIdLen == 2      \* longest of the enumerated short record identifiers
MaxRecs == 2       \* most records in the loci directory
MaxAlleles == 2    \* largest numalleles
MaxFileLen == 1    \* longest file of a compared directory, in bytes

----------------------------------------------------------------------------
(* Strings *)

IdChars == {"a", "1"}

human == <<"h", "u", "m", "a", "n">>
chimp == <<"c", "h", "i", "m", "p">>
StemPool == <<human, chimp>>

geneA_1_2 == <<"g", "e", "n", "e", "A", "_", "1", "_", "2">>
geneA_1_3 == <<"g", "e", "n", "e", "A", "_", "1", "_", "3">>

dotfa == <<".", "f", "a">>
readme == <<"R", "E", "A", "D", "M", "E">>

\* sys.argv[2]
argv2 == <<"w">>

\* sys.argv[2]+"/loci/"
lociPrefix == argv2 \o <<"/", "l", "o", "c", "i", "/">>

\* str.rfind(c), 1-based; 0 when c does not occur
rfind(s, c) ==
    LET hits == {i \in 1..Len(s) : s[i] = c}
    IN IF hits = {} THEN 0 ELSE CHOOSE i \in hits : \A j \in hits : j <= i

\* str.endswith
endswith(s, suffix) ==
    /\ Len(s) >= Len(suffix)
    /\ SubSeq(s, Len(s) - Len(suffix) + 1, Len(s)) = suffix

\* os.path.splitext (genericpath._splitext): <<root, ext>>
splitext(p) ==
    LET sepIndex == rfind(p, "/")
        dotIndex == rfind(p, ".")
    IN IF /\ dotIndex > sepIndex
          /\ \E k \in (sepIndex + 1)..(dotIndex - 1) : p[k] # "."
       THEN <<SubSeq(p, 1, dotIndex - 1), SubSeq(p, dotIndex, Len(p))>>
       ELSE <<p, <<>>>>

\* os.path.basename
basename(p) == SubSeq(p, rfind(p, "/") + 1, Len(p))

\* list(s): the list of the one-character strings of s
list(s) == [i \in 1..Len(s) |-> <<s[i]>>]

\* ''.join(l): the strings of l, concatenated
RECURSIVE join(_)
join(l) == IF l = <<>> THEN <<>> ELSE Head(l) \o join(Tail(l))

\* 0-based position list.pop(i) removes, for a Python index i (a negative
\* index counts from the end)
popIndex(l, i) == IF i < 0 THEN i + Len(l) ELSE i

\* list.pop(i) raises IndexError
popRaises(l, i) == popIndex(l, i) < 0 \/ popIndex(l, i) >= Len(l)

\* list.pop(i) gone wrong: the item is read, l[i], and stays in the list
pop_peek(l, i) == <<l[popIndex(l, i) + 1], l>>

\* list.pop(i): <<the item removed, the list afterwards>>
pop(l, i) ==
    LET k == popIndex(l, i)
    IN <<l[k + 1], SubSeq(l, 1, k) \o SubSeq(l, k + 2, Len(l))>>

----------------------------------------------------------------------------
(* The Locus Regrouper: libexec/gfr/genealign_from_allgenes.py *)

\* dict()
EmptyDict == [g \in {} |-> <<>>]

\* rekey gone wrong: the suffix is taken whenever numalleles >= 1
rekey_ge1(species, numalleles, id) ==
    LET gene0 == list(id)
        allele0 == <<basename(splitext(species)[1])>>
    IN IF numalleles >= 1 /\ ~popRaises(gene0, -2)
       THEN LET p1 == pop(gene0, -2)
                p2 == pop(p1[2], -1)
            IN [raises |-> FALSE,
                gene |-> join(p2[2]),
                id |-> join(allele0 \o <<<<"_">>, p1[1], p2[1]>>)]
       ELSE [raises |-> numalleles >= 1, gene |-> join(gene0),
             id |-> join(allele0)]

\* rekey gone wrong: both tokens are taken with gene.pop(), last one first
rekey_poplast(species, numalleles, id) ==
    LET gene0 == list(id)
        allele0 == <<basename(splitext(species)[1])>>
    IN IF numalleles > 1 /\ ~popRaises(gene0, -2)
       THEN LET p1 == pop(gene0, -1)
                p2 == pop(p1[2], -1)
            IN [raises |-> FALSE,
                gene |-> join(p2[2]),
                id |-> join(allele0 \o <<<<"_">>, p1[1], p2[1]>>)]
       ELSE [raises |-> numalleles > 1, gene |-> join(gene0),
             id |-> join(allele0)]

\* read_resort, lines 15-22 and 25, for one identifier: the locus key `gene`
\* and the new identifier ''.join(allele), or raises when gene.pop does
rekey(species, numalleles, id) ==
    LET gene0 == list(id)
        allele0 == <<basename(splitext(species)[1])>>
    IN IF numalleles > 1
       THEN IF popRaises(gene0, -2)
            THEN [raises |-> TRUE, gene |-> <<>>, id |-> <<>>]
            ELSE LET p1 == pop(gene0, -2)
                 IN IF popRaises(p1[2], -1)
                    THEN [raises |-> TRUE, gene |-> <<>>, id |-> <<>>]
                    ELSE LET p2 == pop(p1[2], -1)
                         IN [raises |-> FALSE,
                             gene |-> join(p2[2]),
                             id |-> join(allele0 \o
                                         <<<<"_">>, p1[1], p2[1]>>)]
       ELSE [raises |-> FALSE, gene |-> join(gene0), id |-> join(allele0)]

\* file_under gone wrong: seqdict[gene] = [seq_record], whatever was there
file_under_overwrite(d, gene, rec) ==
    [g \in DOMAIN d \cup {gene} |-> IF g = gene THEN <<rec>> ELSE d[g]]

\* file_under gone wrong: seqdict[gene].insert(0, seq_record)
file_under_prepend(d, gene, rec) ==
    [g \in DOMAIN d \cup {gene} |->
        IF g = gene
        THEN <<rec>> \o (IF gene \in DOMAIN d THEN d[gene] ELSE <<>>)
        ELSE d[g]]

\* read_resort, lines 23-26: if gene not in seqdict: seqdict[gene]=list();
\* seqdict[gene].append(seq_record)
file_under(d, gene, rec) ==
    [g \in DOMAIN d \cup {gene} |->
        IF g = gene
        THEN Append(IF gene \in DOMAIN d THEN d[gene] ELSE <<>>, rec)
        ELSE d[g]]

\* the body of the loop of read_resort for one seq_record: the dictionary
\* afterwards, or err when gene.pop raises
resort_record(species, d, numalleles, seq_record) ==
    LET k == rekey(species, numalleles, seq_record.id)
    IN IF k.raises
       THEN [err |-> TRUE, dict |-> d]
       ELSE [err |-> FALSE,
             dict |-> file_under(d, k.gene, [seq_record EXCEPT !.id = k.id])]

\* the loop of read_resort over the records SeqIO.parse yields
RECURSIVE resort_loop(_, _, _, _)
resort_loop(species, d, numalleles, records) ==
    IF records = <<>>
    THEN [err |-> FALSE, dict |-> d]
    ELSE LET r == resort_record(species, d, numalleles, Head(records))
         IN IF r.err
            THEN r
            ELSE resort_loop(species, r.dict, numalleles, Tail(records))

\* read_resort(species, seqdict, numalleles) on the file `file` at the path
\* species: SeqIO.parse raises on a file that cannot be read
read_resort(species, d, numalleles, file) ==
    IF ~file.readable
    THEN [err |-> TRUE, dict |-> d]
    ELSE resort_loop(species, d, numalleles, file.records)

\* the names glob.glob(<dir>/*.fa) matches in a directory: hidden names are
\* skipped, the rest is matched against *.fa
globNames(dir) ==
    {n \in DOMAIN dir : n # <<>> /\ n[1] # "." /\ endswith(n, dotfa)}

\* the orders in which a directory listing (glob.glob, os.listdir) may return
\* a set of names
Orders(S) ==
    {p \in [1..Cardinality(S) -> S] :
        \A i, j \in 1..Cardinality(S) : i # j => p[i] # p[j]}

\* sys.argv[2]+'/loci/'+gene+'.fa'
outPath(gene) == lociPrefix \o gene \o dotfa

\* the file name of a path under sys.argv[2]+"/loci/"
nameOf(path) == SubSeq(path, Len(lociPrefix) + 1, Len(path))

\* where the script stands once the first loop has `todo` left
afterRead(todo, d) ==
    IF todo # <<>> THEN "reading"
    ELSE IF DOMAIN d # {} THEN "writing" ELSE "done"

\* fafiles = glob.glob(sys.argv[2]+"/loci/*.fa"); seqdict=dict()
Glob ==
    /\ pc = "start"
    /\ \E order \in Orders(globNames(loci)) :
          fafiles' = [i \in DOMAIN order |-> lociPrefix \o order[i]]
    /\ processed' = <<>>
    /\ seqdict' = EmptyDict
    /\ pending' = {}
    /\ pc' = afterRead(fafiles', seqdict')
    /\ UNCHANGED <<argv1, loci, written>>
    /\ UNCHANGED verifierVars

\* ReadResort gone wrong: the groups are written out after every file
ReadResort_flush ==
    /\ pc = "reading"
    /\ LET f == Head(fafiles)
           r == read_resort(f, seqdict, argv1, loci[nameOf(f)])
       IN IF r.err
          THEN /\ pc' = "error"
               /\ seqdict' = r.dict
               /\ UNCHANGED <<fafiles, processed, pending, written>>
          ELSE /\ seqdict' = r.dict
               /\ fafiles' = Tail(fafiles)
               /\ processed' = Append(processed, f)
               /\ pending' = {}
               /\ written' = [p \in {outPath(g) : g \in DOMAIN seqdict'} |->
                     seqdict'[nameOf(SubSeq(p, 1, Len(p) - Len(dotfa)))]]
               /\ pc' = IF fafiles' = <<>> THEN "done" ELSE "reading"
    /\ UNCHANGED <<argv1, loci>>
    /\ UNCHANGED verifierVars

\* one pass of `for f in fafiles`: seqdict = read_resort(f, seqdict, ...)
ReadResort ==
    /\ pc = "reading"
    /\ LET f == Head(fafiles)
           r == read_resort(f, seqdict, argv1, loci[nameOf(f)])
       IN IF r.err
          THEN /\ pc' = "error"
               /\ seqdict' = r.dict
               /\ UNCHANGED <<fafiles, processed, pending>>
          ELSE /\ seqdict' = r.dict
               /\ fafiles' = Tail(fafiles)
               /\ processed' = Append(processed, f)
               /\ pending' = IF fafiles' = <<>> THEN DOMAIN seqdict' ELSE {}
               /\ pc' = afterRead(fafiles', seqdict')
    /\ UNCHANGED <<argv1, loci, written>>
    /\ UNCHANGED verifierVars

\* one pass of `for gene, records in seqdict.iteritems()`: SeqIO.write
Write ==
    /\ pc = "writing"
    /\ \E gene \in pending :
          /\ written' = [p \in DOMAIN written \cup {outPath(gene)} |->
                            IF p = outPath(gene) THEN seqdict[gene]
                            ELSE written[p]]
          /\ pending' = pending \ {gene}
    /\ pc' = IF pending' = {} THEN "done" ELSE "writing"
    /\ UNCHANGED <<argv1, loci, fafiles, processed, seqdict>>
    /\ UNCHANGED verifierVars

\* the key of seqdict a written path stands for
geneOf(path) == nameOf(SubSeq(path, 1, Len(path) - Len(dotfa)))

\* the first loop of the script over the paths `files` of the directory dir
RECURSIVE read_all(_, _, _, _)
read_all(dir, files, d, numalleles) ==
    IF files = <<>>
    THEN [err |-> FALSE, dict |-> d]
    ELSE LET r == read_resort(Head(files), d, numalleles,
                              dir[nameOf(Head(files))])
         IN IF r.err
            THEN r
            ELSE read_all(dir, Tail(files), r.dict, numalleles)

\* the whole script, lines 30-37, as a function of the directory, numalleles
\* and the order glob.glob lists the names in: the files it writes, or err
\* when it raises
script(dir, numalleles, order) ==
    LET r == read_all(dir, [i \in DOMAIN order |-> lociPrefix \o order[i]],
                      EmptyDict, numalleles)
    IN [err |-> r.err,
        written |-> IF r.err THEN EmptyDict
                    ELSE [p \in {outPath(g) : g \in DOMAIN r.dict} |->
                             r.dict[geneOf(p)]]]

----------------------------------------------------------------------------
(* The Pipeline Verifier: tests/test_sisrs.py *)

Bytes == {0, 1}
NamePool == <<<<"a">>, <<"b">>>>

\* a directory entry: its type (a regular file or not), bytes and mtime
RegEntry(bytes) == [type |-> "reg", bytes |-> bytes, mtime |-> 0]
SubdirEntry == [type |-> "dir", bytes |-> <<>>, mtime |-> 0]

\* directories: file name -> entry
FileContents == UNION {[1..n -> Bytes] : n \in 0..MaxFileLen}
Entries == {RegEntry(bytes) : bytes \in FileContents} \cup {SubdirEntry}
DirNames == {NamePool[i] : i \in DOMAIN NamePool}
Dirs == UNION {[names -> Entries] : names \in SUBSET DirNames}

EmptyDir == [n \in {} |-> <<>>]
Absent == [kind |-> "absent", files |-> EmptyDir]
RegularFile == [kind |-> "file", files |-> EmptyDir]
Directory(files) == [kind |-> "dir", files |-> files]

\* os.path.exists
exists(o) == o.kind # "absent"

\* shutil.rmtree raises (os.listdir of something that is no directory)
rmtreeRaises(o) == o.kind # "dir"

\* rmtree gone wrong: the contents are gone, the directory stays
rmtree_contents(o) == [kind |-> "dir", files |-> [n \in {} |-> <<>>]]

\* shutil.rmtree: the directory and everything in it is gone
rmtree(o) == Absent

\* filecmp._do_cmp: read both files chunk by chunk until a chunk differs or
\* both are exhausted (a chunk is one byte here)
RECURSIVE do_cmp(_, _)
do_cmp(f1, f2) ==
    LET b1 == IF f1 = <<>> THEN <<>> ELSE <<Head(f1)>>
        b2 == IF f2 = <<>> THEN <<>> ELSE <<Head(f2)>>
    IN IF b1 # b2 THEN FALSE
       ELSE IF b1 = <<>> THEN TRUE
       ELSE do_cmp(Tail(f1), Tail(f2))

\* filecmp._sig(os.stat(f)): (type, size, mtime)
sig(f) == <<f.type, Len(f.bytes), f.mtime>>

\* {}
EmptyCache == [k \in {} |-> TRUE]

\* filecmp.cmp(f1, f2, shallow=False) of the entries f1 = a/x and f2 = b/x:
\* False unless both are regular files of one size; then the outcome cached
\* for these paths and signatures, if any, else the contents are compared
\* and the outcome is cached. The outcome and _cache afterwards
cmp(x, f1, f2, c) ==
    LET s1 == sig(f1)
        s2 == sig(f2)
        key == <<x, s1, s2>>
    IN IF s1[1] # "reg" \/ s2[1] # "reg"
       THEN [outcome |-> FALSE, cache |-> c]
       ELSE IF s1[2] # s2[2]
       THEN [outcome |-> FALSE, cache |-> c]
       ELSE IF key \in DOMAIN c
       THEN [outcome |-> c[key], cache |-> c]
       ELSE LET outcome == do_cmp(f1.bytes, f2.bytes)
                kept == IF Cardinality(DOMAIN c) > 100 THEN EmptyCache ELSE c
            IN [outcome |-> outcome,
                cache |-> [k \in DOMAIN kept \cup {key} |->
                              IF k = key THEN outcome ELSE kept[k]]]

\* files_match(f1, f2) for f1 = a/x and f2 = b/x
files_match(x, f1, f2, c) == cmp(x, f1, f2, c)

\* filecmp._cmp: 0 equal, 1 different, 2 when os.stat raises (a file is
\* missing); and _cache afterwards
cmp_index(a, b, x, c) ==
    IF x \notin DOMAIN a \/ x \notin DOMAIN b
    THEN [index |-> 2, cache |-> c]
    ELSE LET r == cmp(x, a[x], b[x], c)
         IN [index |-> IF r.outcome THEN 0 ELSE 1, cache |-> r.cache]

\* filecmp.cmpfiles(a, b, common, shallow=False): the names of the list
\* common, walked in the order of the list, that match, mismatch and fail
\* (each a list in that order), and _cache afterwards
RECURSIVE cmpfiles(_, _, _, _)
cmpfiles(a, b, common, c) ==
    IF common = <<>>
    THEN [match |-> <<>>, mismatch |-> <<>>, errors |-> <<>>, cache |-> c]
    ELSE LET x == Head(common)
             r == cmp_index(a, b, x, c)
             rest == cmpfiles(a, b, Tail(common), r.cache)
         IN [match |-> (IF r.index = 0 THEN <<x>> ELSE <<>>) \o rest.match,
             mismatch |-> (IF r.index = 1 THEN <<x>> ELSE <<>>)
                              \o rest.mismatch,
             errors |-> (IF r.index = 2 THEN <<x>> ELSE <<>>) \o rest.errors,
             cache |-> rest.cache]

\* os.listdir(d): the lists it may return, the names of d in any order
listdir(d) == Orders(DOMAIN d)

\* dirs_match(d1, d2) when os.listdir(d1) returns listing: what it returns,
\* and _cache afterwards
dirs_match(a, b, listing, c) ==
    LET res == cmpfiles(a, b, listing, c)
    IN [value |-> Len(res.mismatch) = 0 /\ Len(res.errors) = 0,
        cache |-> res.cache]

\* a Python bool
Bool(b) == IF b THEN "True" ELSE "False"

\* import of the test module: if os.path.exists(out_base_dir):
\* shutil.rmtree(out_base_dir)
Setup ==
    /\ vpc = "import"
    /\ IF exists(outdir)
       THEN IF rmtreeRaises(outdir)
            THEN vpc' = "error" /\ UNCHANGED outdir
            ELSE vpc' = "ready" /\ outdir' = rmtree(outdir)
       ELSE vpc' = "ready" /\ UNCHANGED outdir
    /\ UNCHANGED <<d1, d2, result, fresult, cache, outdir0, identical0,
                   nchanged>>
    /\ UNCHANGED regrouperVars

\* a check calls dirs_match(d1, d2); os.listdir(d1) returns the names in some
\* order
DirsMatch ==
    /\ vpc = "ready"
    /\ \E listing \in listdir(d1) :
          /\ result' = Bool(dirs_match(d1, d2, listing, cache).value)
          /\ cache' = dirs_match(d1, d2, listing, cache).cache
    /\ UNCHANGED <<outdir, d1, d2, vpc, fresult, outdir0, identical0,
                   nchanged>>
    /\ UNCHANGED regrouperVars

\* a check calls files_match on a file of d1 and its namesake of d2
FilesMatch ==
    /\ vpc = "ready"
    /\ \E x \in DOMAIN d1 \cap DOMAIN d2 :
          /\ fresult' = Bool(files_match(x, d1[x], d2[x], cache).outcome)
          /\ cache' = files_match(x, d1[x], d2[x], cache).cache
    /\ UNCHANGED <<outdir, d1, d2, vpc, result, outdir0, identical0,
                   nchanged>>
    /\ UNCHANGED regrouperVars

\* d with byte i of file x replaced by v, and the mtime of x set to t
withByte(d, x, i, v, t) ==
    [d EXCEPT ![x] = [@ EXCEPT !.bytes = [@ EXCEPT ![i] = v], !.mtime = t]]

\* between two checks, one byte of one file of d1 or d2 is changed, once; the
\* mtime of the file moves on, or stays (a write within the granularity of
\* the timestamp, or a copy that preserves it)
ChangeByte ==
    /\ vpc = "ready"
    /\ nchanged = 0
    /\ \/ \E x \in DOMAIN d1 : \E i \in DOMAIN d1[x].bytes :
             \E v \in Bytes \ {d1[x].bytes[i]} :
               \E t \in {d1[x].mtime, d1[x].mtime + 1} :
                d1' = withByte(d1, x, i, v, t) /\ UNCHANGED d2
       \/ \E x \in DOMAIN d2 : \E i \in DOMAIN d2[x].bytes :
             \E v \in Bytes \ {d2[x].bytes[i]} :
               \E t \in {d2[x].mtime, d2[x].mtime + 1} :
                d2' = withByte(d2, x, i, v, t) /\ UNCHANGED d1
    /\ nchanged' = nchanged + 1
    /\ result' = "none"
    /\ fresult' = "none"
    /\ UNCHANGED <<outdir, vpc, cache, outdir0, identical0>>
    /\ UNCHANGED regrouperVars

----------------------------------------------------------------------------
(* Inputs *)

\* record identifiers: the short ones, and the two of the end-to-end example
Ids ==
    UNION {[1..n -> IdChars] : n \in 1..MaxIdLen} \cup {geneA_1_2, geneA_1_3}

\* the k-th smallest element of a set of numbers
nth(S, k) == CHOOSE x \in S : Cardinality({y \in S : y < x}) = k - 1

\* the file of species i when record j of ids lies in file at[j]; every
\* record carries sequence data of its own
speciesFile(i, ids, at, unreadable) ==
    LET mine == {j \in 1..Len(ids) : at[j] = i}
    IN [readable |-> i \notin unreadable,
        records |-> [k \in 1..Cardinality(mine) |->
                        [id |-> ids[nth(mine, k)], seq |-> <<i, k>>]]]

\* a loci directory of n species files and a README
lociDir(n, ids, at, unreadable) ==
    [name \in {StemPool[i] \o dotfa : i \in 1..n} \cup {readme} |->
        IF name = readme
        THEN [readable |-> TRUE, records |-> <<>>]
        ELSE speciesFile(CHOOSE i \in 1..n : name = StemPool[i] \o dotfa,
                         ids, at, unreadable)]

\* loci is one of the enumerated loci directories: up to MaxRecs records,
\* spread over the species files; a file without records may be unreadable
LociDirChosen ==
    \E n \in 0..Len(StemPool) : \E m \in 0..MaxRecs :
        \E ids \in [1..m -> Ids] : \E at \in [1..m -> 1..n] :
            \E unreadable \in SUBSET ((1..n) \ {at[j] : j \in 1..m}) :
                loci = lociDir(n, ids, at, unreadable)

\* the loci directory of the end-to-end example
exampleDir == lociDir(2, <<geneA_1_2, geneA_1_3>>, <<1, 2>>, {})

InitRegrouperIdle ==
    /\ argv1 = 1
    /\ loci = lociDir(0, <<>>, <<>>, {})
    /\ pc = "idle"
    /\ fafiles = <<>>
    /\ processed = <<>>
    /\ seqdict = EmptyDict
    /\ pending = {}
    /\ written = EmptyDict

InitVerifierIdle ==
    /\ outdir = Absent
    /\ outdir0 = Absent
    /\ d1 = EmptyDir
    /\ d2 = EmptyDir
    /\ vpc = "idle"
    /\ result = "none"
    /\ fresult = "none"
    /\ cache = EmptyCache
    /\ identical0 = TRUE
    /\ nchanged = 0

\* the script is started on a loci directory
Init ==
    /\ argv1 \in 1..MaxAlleles
    /\ LociDirChosen
    /\ pc = "start"
    /\ fafiles = <<>>
    /\ processed = <<>>
    /\ seqdict = EmptyDict
    /\ pending = {}
    /\ written = EmptyDict
    /\ InitVerifierIdle

Next == Glob \/ ReadResort \/ Write

Spec == Init /\ [][Next]_vars

\* the test module is imported with something, or nothing, at out_base_dir
InitVerifier ==
    /\ outdir \in {Absent, RegularFile, Directory(EmptyDir),
                   Directory([n \in {NamePool[1]} |-> RegEntry(<<0>>)])}
    /\ outdir0 = outdir
    /\ d1 \in Dirs
    /\ d2 \in Dirs
    /\ vpc = "import"
    /\ result = "none"
    /\ fresult = "none"
    /\ cache = EmptyCache
    /\ identical0 = (d1 = d2)
    /\ nchanged = 0
    /\ InitRegrouperIdle

NextVerifier == Setup \/ DirsMatch \/ FilesMatch \/ ChangeByte

SpecVerifier == InitVerifier /\ [][NextVerifier]_vars

----------------------------------------------------------------------------
(* Properties of the Locus Regrouper *)

\* the places <<path, k>> of the records a set of files holds
Places(files) == UNION {{<<p, k>> : k \in DOMAIN files[p]} : p \in DOMAIN files}

\* the records of the loci directory, as <<file name, position>>
InputRecords ==
    UNION {{<<name, j>> : j \in DOMAIN loci[name].records} :
              name \in DOMAIN loci}

\* a file name without its .fa
stem(name) == SubSeq(name, 1, Len(name) - Len(dotfa))

\* the input records of the files the first loop has been through
ReadRecords ==
    {r \in InputRecords :
        \E i \in DOMAIN processed : nameOf(processed[i]) = r[1]}

\* the position of a file in the order of processing (0 when not processed)
procIndex(name) ==
    IF \E i \in DOMAIN processed : nameOf(processed[i]) = name
    THEN CHOOSE i \in DOMAIN processed : nameOf(processed[i]) = name
    ELSE 0

\* the file name of the species a record's sequence data comes from
originName(rec) == StemPool[rec.seq[1]] \o dotfa

\* C1: when the run completes without error, every record of the input
\* files is in exactly one place of the written locus files, and the written
\* files hold nothing else.
C1_EveryRecordExactlyOnce ==
    pc = "done" =>
        /\ \A r \in InputRecords :
              Cardinality({q \in Places(written) :
                  written[q[1]][q[2]].seq = loci[r[1]].records[r[2]].seq}) = 1
        /\ Cardinality(Places(written)) = Cardinality(InputRecords)

C1_Witness ==
    /\ pc = "done"
    /\ Cardinality(DOMAIN written) = 2
    /\ Cardinality(InputRecords) = 2
    /\ Cardinality({r[1] : r \in InputRecords}) = 2

human_12 == human \o <<"_", "1", "2">>
chimp_13 == chimp \o <<"_", "1", "3">>
human__2 == human \o <<"_", "_", "2">>
chimp__3 == chimp \o <<"_", "_", "3">>
geneA == <<"g", "e", "n", "e", "A">>
geneA_1 == <<"g", "e", "n", "e", "A", "_", "1">>

\* the identifiers of a list of records
idsOf(records) == [k \in DOMAIN records |-> records[k].id]

\* the run of the end-to-end example has completed
ExampleDone == loci = exampleDir /\ argv1 = 2 /\ pc = "done"

\* C2 as stated: the example writes geneA.fa with the identifiers human_12
\* and chimp_13, in the order the two files were processed.
C2_ExampleAsStated ==
    ExampleDone =>
        /\ outPath(geneA) \in DOMAIN written
        /\ idsOf(written[outPath(geneA)]) =
              IF procIndex(human \o dotfa) < procIndex(chimp \o dotfa)
              THEN <<human_12, chimp_13>>
              ELSE <<chimp_13, human_12>>

\* C2 amended: the example writes geneA_1.fa and nothing else, with the
\* identifiers human__2 and chimp__3, in the order the two files were
\* processed.
C2_ExampleAmended ==
    ExampleDone =>
        /\ DOMAIN written = {outPath(geneA_1)}
        /\ idsOf(written[outPath(geneA_1)]) =
              IF procIndex(human \o dotfa) < procIndex(chimp \o dotfa)
              THEN <<human__2, chimp__3>>
              ELSE <<chimp__3, human__2>>

C2_Witness ==
    /\ ExampleDone
    /\ procIndex(chimp \o dotfa) = 1
    /\ procIndex(human \o dotfa) = 2

\* record r of the input is filed in seqdict under key with identifier id
Filed(r, key, id) ==
    /\ key \in DOMAIN seqdict
    /\ \E k \in DOMAIN seqdict[key] :
          /\ seqdict[key][k].seq = loci[r[1]].records[r[2]].seq
          /\ seqdict[key][k].id = id

\* C3: with numalleles > 1, a record read whose identifier has n >= 2
\* characters is filed under the first n-2 characters of the identifier, and
\* its new identifier is the species, "_", and characters n-1 and n.
C3_AlleleSuffix ==
    argv1 > 1 =>
        \A r \in ReadRecords :
            LET id == loci[r[1]].records[r[2]].id
                n == Len(id)
            IN n >= 2 =>
                Filed(r, SubSeq(id, 1, n - 2),
                      stem(r[1]) \o <<"_", id[n - 1], id[n]>>)

C3_Witness ==
    /\ argv1 > 1
    /\ \E r \in ReadRecords :
          LET id == loci[r[1]].records[r[2]].id
          IN Len(id) > 2 /\ id[Len(id) - 1] # id[Len(id)]

\* C4: with numalleles = 1, a record read is filed under its whole
\* identifier and its new identifier is the species.
C4_SpeciesOnly ==
    argv1 = 1 =>
        \A r \in ReadRecords :
            Filed(r, loci[r[1]].records[r[2]].id, stem(r[1]))

C4_Witness ==
    /\ argv1 = 1
    /\ \E r \in ReadRecords : Len(loci[r[1]].records[r[2]].id) >= 2

\* C5: a run that has completed has written what every run of the script on
\* the same loci directory and numalleles writes, whatever the order the
\* directory is listed in.
C5_Deterministic ==
    pc = "done" =>
        \A order \in Orders(globNames(loci)) :
            /\ ~script(loci, argv1, order).err
            /\ script(loci, argv1, order).written = written

\* r1 is read before r2
ReadBefore(r1, r2) ==
    \/ procIndex(r1[1]) < procIndex(r2[1])
    \/ r1[1] = r2[1] /\ r1[2] < r2[2]

\* the input record <<file name, position>> at the place q of a written file
inputOf(q) == <<originName(written[q[1]][q[2]]), written[q[1]][q[2]].seq[2]>>

\* C9: two records of one written file are in the order they were read in.
C9_InsertionOrder ==
    \A q1, q2 \in Places(written) :
        (q1[1] = q2[1] /\ ReadBefore(inputOf(q1), inputOf(q2)))
            => q1[2] < q2[2]

C9_Witness ==
    \E q1, q2 \in Places(written) :
        /\ q1[1] = q2[1]
        /\ q1[2] < q2[2]
        /\ inputOf(q1)[1] = chimp \o dotfa
        /\ inputOf(q2)[1] = human \o dotfa

\* the run cannot get through the first loop: a file cannot be read, or
\* numalleles > 1 and an identifier has fewer than two characters
BadInput ==
    \E name \in globNames(loci) :
        \/ ~loci[name].readable
        \/ /\ argv1 > 1
           /\ \E j \in DOMAIN loci[name].records :
                 Len(loci[name].records[j].id) < 2

\* C10: nothing is written before the first loop is through, a run on bad
\* input never gets to writing, and a run that has raised has written
\* nothing.
C10_NoWriteOnError ==
    /\ pc \in {"start", "reading", "error"} => written = EmptyDict
    /\ BadInput => pc \in {"start", "reading", "error"}

C10_Witness ==
    /\ pc = "error"
    /\ processed # <<>>
    /\ DOMAIN seqdict # {}
    /\ argv1 > 1
    /\ \A name \in DOMAIN loci : loci[name].readable

----------------------------------------------------------------------------
(* Properties of the Pipeline Verifier *)

\* the entries of d1 and d2 are regular files
OnlyFiles ==
    /\ \A x \in DOMAIN d1 : d1[x].type = "reg"
    /\ \A x \in DOMAIN d2 : d2[x].type = "reg"

\* d1 and d2 hold the same names, with the same bytes under each
SameContents ==
    /\ DOMAIN d1 = DOMAIN d2
    /\ \A x \in DOMAIN d1 : d1[x].bytes = d2[x].bytes

\* C6 as stated: dirs_match returns true only for directories with the same
\* file names and equal contents.
C6_MembershipEquality == result = "True" => SameContents

\* C7 as stated: dirs_match returns true for directories of files with the
\* same names and bytes, and false once one byte of one file of identical
\* directories has been changed.
C7_ByteIdentical ==
    result # "none" =>
        /\ (OnlyFiles /\ SameContents) => result = "True"
        /\ (identical0 /\ OnlyFiles /\ nchanged = 1) => result = "False"

\* C8 as stated: once the set-up has run, out_base_dir is an empty
\* directory.
C8_Recreated ==
    vpc = "ready" => (outdir.kind = "dir" /\ DOMAIN outdir.files = {})

\* C8 amended: once the set-up has run without error, nothing is at
\* out_base_dir.
C8_Removed == vpc = "ready" => outdir.kind = "absent"

C8_Witness ==
    /\ vpc = "ready"
    /\ outdir0.kind = "dir"
    /\ DOMAIN outdir0.files # {}
    /\ outdir.kind = "absent"

====
